---- MODULE Spec2Model ----
(***************************************************************************)
(* Sidecar process supervisor of desktop/src-tauri/src/lib.rs.             *)
(*                                                                         *)
(* The three tauri commands (start_sidecar, stop_sidecar, sidecar_status)  *)
(* run as async tasks on a multi-threaded runtime and the tray "quit"      *)
(* handler runs on the event loop; they share SidecarState.child, a        *)
(* Mutex<Option<CommandChild>>.  A step of an invocation is one statement  *)
(* of the source: a statement that locks the mutex waits until it is Free, *)
(* and the mutex stays held after the step exactly where the guard         *)
(* outlives the statement (the `if let` of stop_sidecar and of quit, whose *)
(* guard lives across kill).  The places where the lock is NOT held        *)
(* (between the check and the store of start_sidecar) are therefore        *)
(* visible to the other invocations.                                       *)
(***************************************************************************)
EXTENDS Integers, Sequences, FiniteSets, TLC

(* ------------------------------ bounds --------------------------------- *)
\* number of invocations that can be in flight at the same time
NumCallers == 2
\* number of sidecar processes the OS lets the application spawn in one run
MaxSpawns == 2
\* number of output events (stdout / stderr / other) the sidecars emit in one run
MaxEvents == 1

\* number of invocations (commands and quit) issued in one run
MaxCalls == 3

(* ----------------------------- constants ------------------------------- *)
\* lib.rs:88  port: 22140
Port == 22140
\* Option::None in SidecarState.child / an empty local
None == 0
\* the mutex is not held
Free == 0

Callers == 1..NumCallers
Pids == 1..MaxSpawns
\* CommandEvent variants the relay distinguishes; "Other" is every variant
\* matched by the `_ => {}` arm (Error, ...)
OutputKinds == {"Stdout", "Stderr", "Other"}

VARIABLES
    child,      \* SidecarState.child: None or the pid whose CommandChild is stored
    lock,       \* holder of the SidecarState mutex, Free or a caller
    op,         \* op[t]: the operation invocation slot t runs, "none" when idle
    pc,         \* pc[t]: position of invocation slot t
    local,      \* local[t]: the CommandChild held in a local of the invocation
    rcv,        \* rcv[t]: the event receiver (rx) held in a local of start_sidecar
    ret,        \* ret[t]: "none" | "ok" | "err", the Result of the invocation
    status,     \* status[t]: the SidecarStatus returned by sidecar_status
    proc,       \* proc[p]: OS state of process p
    kills,      \* kills[p]: number of kill() calls issued on p's handle
    rx,         \* rx[p]: events sent on p's channel and not yet received
    sent,       \* sent[p]: number of events produced by p so far
    closed,     \* closed[p]: the sender side of p's channel is gone
    relay,      \* relay[p]: "none" | "running" | "ended", the relay task of p
    info,       \* info[p]: what p's relay printed with println!
    error,      \* error[p]: what p's relay printed with eprintln!
    exited,     \* app.exit(0) has been called
    calls,      \* number of invocations issued so far
    window      \* the main webview window: "shown" | "hidden" | "closed"

vars == <<child, lock, op, pc, local, rcv, ret, status, proc, kills, rx, sent, closed,
          relay, info, error, exited, calls, window>>

cmdVars == <<child, lock, op, pc, local, rcv, ret, status, exited, calls>>
osVars == <<proc, kills, rx, sent, closed>>
relayVars == <<relay, info, error>>

NoStatus == [running |-> FALSE, port |-> 0]

(* lib.rs:151-153  .manage(SidecarState { child: Mutex::new(None) }) *)
Init ==
    /\ child = None
    /\ lock = Free
    /\ op = [t \in Callers |-> "none"]
    /\ pc = [t \in Callers |-> "idle"]
    /\ local = [t \in Callers |-> None]
    /\ rcv = [t \in Callers |-> None]
    /\ ret = [t \in Callers |-> "none"]
    /\ status = [t \in Callers |-> NoStatus]
    /\ proc = [p \in Pids |-> "unborn"]
    /\ kills = [p \in Pids |-> 0]
    /\ rx = [p \in Pids |-> <<>>]
    /\ sent = [p \in Pids |-> 0]
    /\ closed = [p \in Pids |-> FALSE]
    /\ relay = [p \in Pids |-> "none"]
    /\ info = [p \in Pids |-> <<>>]
    /\ error = [p \in Pids |-> <<>>]
    /\ exited = FALSE
    /\ calls = 0
    /\ window = "shown"

(* ------------------------------ helpers -------------------------------- *)
\* processes spawned so far
Spawned == {p \in Pids : proc[p] # "unborn"}
\* processes spawned and neither killed nor self-terminated
Live == {p \in Pids : proc[p] = "alive"}
\* Option::is_some on the stored handle
IsSome(c) == c # None
\* what sidecar_status computes from the locked state
Running == IsSome(child)
\* output events emitted so far, the final event of a process not counted
RECURSIVE EmittedUpTo(_)
EmittedUpTo(p) ==
    IF p = 0 THEN 0
    ELSE EmittedUpTo(p - 1) + sent[p] - (IF closed[p] THEN 1 ELSE 0)
Emitted == EmittedUpTo(MaxSpawns)
\* pids are handed out in order
NextPid == Cardinality(Spawned) + 1

\* return of a command: the Result becomes visible to the caller
Return(t, r) ==
    /\ pc' = [pc EXCEPT ![t] = "done"]
    /\ ret' = [ret EXCEPT ![t] = r]

(* ---------------------------- invocation ------------------------------- *)
\* first position of each operation
Entry == [start |-> "s_check", stop |-> "p_take", status |-> "t_read", quit |-> "q_take"]
Ops == {"start", "stop", "status", "quit"}
QuitPcs == {"q_take", "q_kill", "q_exit"}

\* The UI invokes a command, or the user picks "quit" in the tray menu.  The
\* menu handler runs on the event loop, so one quit at a time; nothing is
\* invoked once app.exit(0) was called.
Invoke(t, o) ==
    /\ pc[t] = "idle"
    /\ ~exited
    /\ calls < MaxCalls
    /\ calls' = calls + 1
    /\ o = "quit" => \A u \in Callers : pc[u] \notin QuitPcs
    /\ op' = [op EXCEPT ![t] = o]
    /\ pc' = [pc EXCEPT ![t] = Entry[o]]
    /\ UNCHANGED <<child, lock, local, rcv, ret, status, exited, osVars, relayVars, window>>

\* the caller consumes the result; the slot is free for the next invocation
Collect(t) ==
    /\ pc[t] = "done"
    /\ op' = [op EXCEPT ![t] = "none"]
    /\ pc' = [pc EXCEPT ![t] = "idle"]
    /\ ret' = [ret EXCEPT ![t] = "none"]
    /\ status' = [status EXCEPT ![t] = NoStatus]
    /\ local' = [local EXCEPT ![t] = None]
    /\ UNCHANGED <<child, lock, rcv, exited, calls, osVars, relayVars, window>>

\* Mutex::lock by t returns: the mutex is free (std's Mutex is not reentrant)
CanLock(t) == lock = Free

(* --------------------------- the OS process ---------------------------- *)
Event(k, n) == [kind |-> k, n |-> n]

\* The plugin's wait thread reports the end of process p on its channel and
\* drops the sender: Terminated(status), or an Error event when wait fails.
Reaped(p, k) ==
    /\ rx' = [rx EXCEPT ![p] = Append(@, Event(k, sent[p] + 1))]
    /\ sent' = [sent EXCEPT ![p] = @ + 1]
    /\ closed' = [closed EXCEPT ![p] = TRUE]

\* the sidecar writes a line to stdout or stderr (or the plugin reports an
\* event of another kind) while it is running
Emit(p, k) ==
    /\ proc[p] = "alive"
    /\ Emitted < MaxEvents
    /\ rx' = [rx EXCEPT ![p] = Append(@, Event(k, sent[p] + 1))]
    /\ sent' = [sent EXCEPT ![p] = @ + 1]
    /\ UNCHANGED <<proc, kills, closed, cmdVars, relayVars, window>>

\* the sidecar exits on its own (crash, normal exit)
SelfExit(p, k) ==
    /\ proc[p] = "alive"
    /\ proc' = [proc EXCEPT ![p] = "exited"]
    /\ Reaped(p, k)
    /\ UNCHANGED <<kills, cmdVars, relayVars, window>>

\* CommandChild::kill(self) on the handle of p with result r.  A kill that
\* succeeds on a running process ends it; a kill on a process that is gone
\* returns Ok or Err depending on the OS; a failed kill changes nothing.
Kill(p, r, k) ==
    /\ kills' = [kills EXCEPT ![p] = @ + 1]
    /\ IF proc[p] = "alive" /\ r = "ok"
       THEN /\ proc' = [proc EXCEPT ![p] = "killed"]
            /\ Reaped(p, k)
       ELSE UNCHANGED <<proc, rx, sent, closed>>

(* --------------------------- start_sidecar ----------------------------- *)
\* a start_sidecar that remembers that it has started a sidecar once and
\* treats every later call as `already running`
StartCheck_Latched(t) ==
    /\ pc[t] = "s_check"
    /\ CanLock(t)
    /\ UNCHANGED lock
    /\ IF IsSome(child) \/ Spawned # {}
       THEN Return(t, "ok")
       ELSE /\ pc' = [pc EXCEPT ![t] = "s_create"]
            /\ UNCHANGED ret
    /\ UNCHANGED <<child, local, rcv, status, op, exited, calls, osVars, relayVars, window>>

\* a start_sidecar that hands the output of the running sidecar to a new relay
\* task when it returns early
StartCheck_Relays(t) ==
    /\ pc[t] = "s_check"
    /\ CanLock(t)
    /\ UNCHANGED lock
    /\ IF IsSome(child)
       THEN /\ Return(t, "ok")
            /\ relay' = [relay EXCEPT ![child] = "running"]
       ELSE /\ pc' = [pc EXCEPT ![t] = "s_create"]
            /\ UNCHANGED <<ret, relay>>
    /\ UNCHANGED <<child, local, rcv, status, op, exited, calls, osVars, info, error, window>>

\* start_sidecar without the `already running` check: it always goes on to spawn
StartCheck_Always(t) ==
    /\ pc[t] = "s_check"
    /\ CanLock(t)
    /\ pc' = [pc EXCEPT ![t] = "s_create"]
    /\ UNCHANGED <<child, lock, op, local, rcv, ret, status, exited, calls, osVars, relayVars, window>>

\* lib.rs:31-33  if state.child.lock().unwrap().is_some() { return Ok(()); }
\* the guard is a temporary of the condition: dropped before the body runs
StartCheck(t) ==
    /\ pc[t] = "s_check"
    /\ CanLock(t)
    /\ UNCHANGED lock
    /\ IF IsSome(child)
       THEN Return(t, "ok")
       ELSE /\ pc' = [pc EXCEPT ![t] = "s_create"]
            /\ UNCHANGED ret
    /\ UNCHANGED <<child, local, rcv, status, op, exited, calls, osVars, relayVars, window>>

\* lib.rs:35-38  app.shell().sidecar("aimatrx-engine").map_err(..)?
StartCreate(t, r) ==
    /\ pc[t] = "s_create"
    /\ IF r = "ok"
       THEN /\ pc' = [pc EXCEPT ![t] = "s_spawn"]
            /\ UNCHANGED ret
       ELSE Return(t, "err")
    /\ UNCHANGED <<child, lock, local, rcv, status, op, exited, calls, osVars, relayVars, window>>

\* lib.rs:40-42  let (mut rx, child) = sidecar.spawn().map_err(..)?  succeeds
StartSpawnOk(t) ==
    /\ pc[t] = "s_spawn"
    /\ NextPid <= MaxSpawns
    /\ proc' = [proc EXCEPT ![NextPid] = "alive"]
    /\ local' = [local EXCEPT ![t] = NextPid]
    /\ rcv' = [rcv EXCEPT ![t] = NextPid]
    /\ pc' = [pc EXCEPT ![t] = "s_store"]
    /\ UNCHANGED <<child, lock, ret, status, op, exited, calls, kills, rx, sent, closed, relayVars, window>>

\* a start_sidecar that fills SidecarState before spawn has succeeded: the
\* failure path leaves the handle of the process that never started
StartSpawnFail_Stores(t) ==
    /\ pc[t] = "s_spawn"
    /\ child' = IF NextPid \in Pids THEN NextPid ELSE MaxSpawns
    /\ Return(t, "err")
    /\ UNCHANGED <<lock, op, local, rcv, status, exited, calls, osVars, relayVars, window>>

\* lib.rs:40-42  spawn() fails: the error is returned, nothing else happens
StartSpawnFail(t) ==
    /\ pc[t] = "s_spawn"
    /\ Return(t, "err")
    /\ UNCHANGED <<child, lock, local, rcv, status, op, exited, calls, osVars, relayVars, window>>

\* a start_sidecar that drops the spawned handle instead of storing it
StartStore_Forgets(t) ==
    /\ pc[t] = "s_store"
    /\ CanLock(t)
    /\ local' = [local EXCEPT ![t] = None]
    /\ pc' = [pc EXCEPT ![t] = "s_relay"]
    /\ UNCHANGED <<child, lock, op, rcv, ret, status, exited, calls, osVars, relayVars, window>>

\* lib.rs:44  *state.child.lock().unwrap() = Some(child);  the previous Option is dropped (dropping
\* a CommandChild does not kill its process) and the guard is released
StartStore(t) ==
    /\ pc[t] = "s_store"
    /\ CanLock(t)
    /\ child' = local[t]
    /\ local' = [local EXCEPT ![t] = None]
    /\ pc' = [pc EXCEPT ![t] = "s_relay"]
    /\ UNCHANGED <<lock, rcv, ret, status, op, exited, calls, osVars, relayVars, window>>

\* lib.rs:47-68  tauri::async_runtime::spawn(async move { .. rx .. }); Ok(())
StartRelay(t) ==
    /\ pc[t] = "s_relay"
    /\ relay' = [relay EXCEPT ![rcv[t]] = "running"]
    /\ rcv' = [rcv EXCEPT ![t] = None]
    /\ Return(t, "ok")
    /\ UNCHANGED <<child, lock, local, status, op, exited, calls, osVars, info, error, window>>

(* --------------------------- the relay task ---------------------------- *)
\* a relay whose catch-all arm leaves the loop: it stops at the first event
\* that is neither Stdout, Stderr nor Terminated
RelayRecv_BreaksOnOther(p) ==
    /\ relay[p] = "running"
    /\ rx[p] # <<>>
    /\ LET e == Head(rx[p]) IN
        /\ rx' = [rx EXCEPT ![p] = Tail(@)]
        /\ info' = IF e.kind = "Stdout" THEN [info EXCEPT ![p] = Append(@, e)] ELSE info
        /\ error' = IF e.kind \in {"Stderr", "Terminated"}
                    THEN [error EXCEPT ![p] = Append(@, e)] ELSE error
        /\ relay' = IF e.kind \in {"Terminated", "Other"}
                    THEN [relay EXCEPT ![p] = "ended"] ELSE relay
    /\ UNCHANGED <<proc, kills, sent, closed, cmdVars, window>>

\* a relay that clears SidecarState when it observes Terminated
RelayRecv_Clears(p) ==
    /\ relay[p] = "running"
    /\ rx[p] # <<>>
    /\ LET e == Head(rx[p]) IN
        /\ rx' = [rx EXCEPT ![p] = Tail(@)]
        /\ info' = IF e.kind = "Stdout" THEN [info EXCEPT ![p] = Append(@, e)] ELSE info
        /\ error' = IF e.kind \in {"Stderr", "Terminated"}
                    THEN [error EXCEPT ![p] = Append(@, e)] ELSE error
        /\ relay' = IF e.kind = "Terminated" THEN [relay EXCEPT ![p] = "ended"] ELSE relay
        /\ child' = IF e.kind = "Terminated" /\ child = p THEN None ELSE child
    /\ UNCHANGED <<proc, kills, sent, closed, lock, op, pc, local, rcv, ret, status, exited, calls,
                   window>>

\* lib.rs:49-64  one iteration of `while let Some(event) = rx.recv().await`
RelayRecv(p) ==
    /\ relay[p] = "running"
    /\ rx[p] # <<>>
    /\ LET e == Head(rx[p]) IN
        /\ rx' = [rx EXCEPT ![p] = Tail(@)]
        /\ info' = IF e.kind = "Stdout" THEN [info EXCEPT ![p] = Append(@, e)] ELSE info
        /\ error' = IF e.kind \in {"Stderr", "Terminated"}
                    THEN [error EXCEPT ![p] = Append(@, e)] ELSE error
        /\ relay' = IF e.kind = "Terminated" THEN [relay EXCEPT ![p] = "ended"] ELSE relay
    /\ UNCHANGED <<proc, kills, sent, closed, cmdVars, window>>

\* lib.rs:49  rx.recv() returns None: every sender is gone and the channel is empty
RelayEnd(p) ==
    /\ relay[p] = "running"
    /\ rx[p] = <<>>
    /\ closed[p]
    /\ relay' = [relay EXCEPT ![p] = "ended"]
    /\ UNCHANGED <<info, error, osVars, cmdVars, window>>

(* ---------------------------- stop_sidecar ----------------------------- *)
\* a stop_sidecar that reads the handle (as_ref / clone) instead of take():
\* the handle stays in SidecarState
StopTake_KeepsHandle(t) ==
    /\ pc[t] = "p_take"
    /\ CanLock(t)
    /\ IF IsSome(child)
       THEN /\ local' = [local EXCEPT ![t] = child]
            /\ pc' = [pc EXCEPT ![t] = "p_kill"]
            /\ lock' = t
            /\ UNCHANGED ret
       ELSE /\ Return(t, "ok")
            /\ UNCHANGED <<lock, local>>
    /\ UNCHANGED <<child, op, rcv, status, exited, calls, osVars, relayVars, window>>

\* a stop_sidecar that reports `not running` as an error
StopTake_ErrOnEmpty(t) ==
    /\ pc[t] = "p_take"
    /\ CanLock(t)
    /\ child' = None
    /\ IF IsSome(child)
       THEN /\ local' = [local EXCEPT ![t] = child]
            /\ pc' = [pc EXCEPT ![t] = "p_kill"]
            /\ lock' = t
            /\ UNCHANGED ret
       ELSE /\ Return(t, "err")
            /\ UNCHANGED <<lock, local>>
    /\ UNCHANGED <<op, rcv, status, exited, calls, osVars, relayVars, window>>

\* lib.rs:74,79  if let Some(child) = state.child.lock().unwrap().take() { .. }  Ok(())
\* the guard is a temporary of the scrutinee: it lives to the end of the
\* `if let`, so the lock is held across kill when a handle was present
StopTake(t) ==
    /\ pc[t] = "p_take"
    /\ CanLock(t)
    /\ child' = None
    /\ IF IsSome(child)
       THEN /\ local' = [local EXCEPT ![t] = child]
            /\ pc' = [pc EXCEPT ![t] = "p_kill"]
            /\ lock' = t
            /\ UNCHANGED ret
       ELSE /\ Return(t, "ok")
            /\ UNCHANGED <<lock, local>>
    /\ UNCHANGED <<rcv, status, op, exited, calls, osVars, relayVars, window>>

\* a stop_sidecar that returns without unlocking the mutex
StopKill_KeepsLock(t, r, k) ==
    /\ pc[t] = "p_kill"
    /\ Kill(local[t], r, k)
    /\ local' = [local EXCEPT ![t] = None]
    /\ UNCHANGED lock
    /\ Return(t, r)
    /\ UNCHANGED <<child, rcv, status, op, exited, calls, relayVars, window>>

\* a stop_sidecar that ignores the result of kill, as the quit handler does
StopKill_Swallows(t, r, k) ==
    /\ pc[t] = "p_kill"
    /\ Kill(local[t], r, k)
    /\ local' = [local EXCEPT ![t] = None]
    /\ lock' = Free
    /\ Return(t, "ok")
    /\ UNCHANGED <<child, rcv, status, op, exited, calls, relayVars, window>>

\* lib.rs:75-79  child.kill().map_err(..)?;  Ok(())
StopKill(t, r, k) ==
    /\ pc[t] = "p_kill"
    /\ Kill(local[t], r, k)
    /\ local' = [local EXCEPT ![t] = None]
    /\ lock' = Free
    /\ Return(t, r)
    /\ UNCHANGED <<child, rcv, status, op, exited, calls, relayVars, window>>

(* --------------------------- sidecar_status ---------------------------- *)
\* a sidecar_status that probes the OS instead of reading the handle
StatusRead_Probe(t) ==
    /\ pc[t] = "t_read"
    /\ CanLock(t)
    /\ status' = [status EXCEPT ![t] = [running |-> IsSome(child) /\ proc[child] = "alive",
                                        port |-> Port]]
    /\ Return(t, "ok")
    /\ UNCHANGED <<child, lock, op, local, rcv, exited, calls, osVars, relayVars, window>>

\* lib.rs:85-89  let running = state.child.lock().unwrap().is_some();  Ok(SidecarStatus { running, port: 22140 })
StatusRead(t) ==
    /\ pc[t] = "t_read"
    /\ CanLock(t)
    /\ status' = [status EXCEPT ![t] = [running |-> IsSome(child), port |-> Port]]
    /\ Return(t, "ok")
    /\ UNCHANGED <<child, lock, local, rcv, op, exited, calls, osVars, relayVars, window>>

\* a quit handler that reads the handle and leaves it in the state
QuitTake_Peeks(t) ==
    /\ pc[t] = "q_take"
    /\ CanLock(t)
    /\ UNCHANGED child
    /\ IF IsSome(child)
       THEN /\ local' = [local EXCEPT ![t] = child]
            /\ pc' = [pc EXCEPT ![t] = "q_kill"]
            /\ lock' = t
       ELSE /\ pc' = [pc EXCEPT ![t] = "q_exit"]
            /\ UNCHANGED <<lock, local>>
    /\ UNCHANGED <<rcv, ret, status, op, exited, calls, osVars, relayVars, window>>

(* ------------------------- tray menu: "quit" --------------------------- *)
\* lib.rs:120  if let Some(child) = state.child.lock().unwrap().take()
QuitTake(t) ==
    /\ pc[t] = "q_take"
    /\ CanLock(t)
    /\ child' = None
    /\ IF IsSome(child)
       THEN /\ local' = [local EXCEPT ![t] = child]
            /\ pc' = [pc EXCEPT ![t] = "q_kill"]
            /\ lock' = t
       ELSE /\ pc' = [pc EXCEPT ![t] = "q_exit"]
            /\ UNCHANGED <<lock, local>>
    /\ UNCHANGED <<rcv, ret, status, op, exited, calls, osVars, relayVars, window>>

\* a quit handler that gives up when kill fails, as stop_sidecar does
QuitKill_Propagates(t, r, k) ==
    /\ pc[t] = "q_kill"
    /\ Kill(local[t], r, k)
    /\ local' = [local EXCEPT ![t] = None]
    /\ lock' = Free
    /\ IF r = "err"
       THEN Return(t, "err")
       ELSE /\ pc' = [pc EXCEPT ![t] = "q_exit"]
            /\ UNCHANGED ret
    /\ UNCHANGED <<child, rcv, status, op, exited, calls, relayVars, window>>

\* lib.rs:121  let _ = child.kill();
QuitKill(t, r, k) ==
    /\ pc[t] = "q_kill"
    /\ Kill(local[t], r, k)
    /\ local' = [local EXCEPT ![t] = None]
    /\ lock' = Free
    /\ pc' = [pc EXCEPT ![t] = "q_exit"]
    /\ UNCHANGED <<child, rcv, ret, status, op, exited, calls, relayVars, window>>

\* lib.rs:123  app.exit(0);
QuitExit(t) ==
    /\ pc[t] = "q_exit"
    /\ exited' = TRUE
    /\ Return(t, "ok")
    /\ UNCHANGED <<child, lock, op, local, rcv, status, calls, osVars, relayVars, window>>

(* ------------------------- window and tray icon ----------------------- *)
\* lib.rs:112-115, 134-137  if let Some(window) = get_webview_window("main")
\*                          { window.show(); window.set_focus(); }
ShowWindow ==
    /\ window' = IF window = "closed" THEN window ELSE "shown"
    /\ UNCHANGED <<cmdVars, osVars, relayVars>>

\* lib.rs:110-116  tray menu item "show"
MenuShow ==
    /\ ~exited
    /\ ShowWindow

\* lib.rs:127-139  left button released on the tray icon
TrayLeftClick ==
    /\ ~exited
    /\ ShowWindow

\* a close request that is treated as a stop signal: the stored handle is
\* taken and the process killed before the window is hidden
CloseRequested_Stops ==
    /\ ~exited
    /\ window # "closed"
    /\ lock = Free
    /\ window' = "hidden"
    /\ child' = None
    /\ IF IsSome(child) /\ proc[child] = "alive"
       THEN /\ proc' = [proc EXCEPT ![child] = "killed"]
            /\ kills' = [kills EXCEPT ![child] = @ + 1]
       ELSE UNCHANGED <<proc, kills>>
    /\ UNCHANGED <<lock, op, pc, local, rcv, ret, status, exited, calls, rx, sent, closed,
                   relayVars>>

\* lib.rs:166-172  WindowEvent::CloseRequested: window.hide(); api.prevent_close()
CloseRequested ==
    /\ ~exited
    /\ window # "closed"
    /\ window' = "hidden"
    /\ UNCHANGED <<cmdVars, osVars, relayVars>>

(* ---------------------------- specification ---------------------------- *)
Results == {"ok", "err"}
EndKinds == {"Terminated", "Other"}

\* every step of the application and of the OS, but the invocation of an
\* operation and the output of the sidecars
Step ==
    \/ \E t \in Callers : Collect(t)
    \/ \E t \in Callers : StartCheck(t)
    \/ \E t \in Callers, r \in Results : StartCreate(t, r)
    \/ \E t \in Callers : StartSpawnOk(t)
    \/ \E t \in Callers : StartSpawnFail(t)
    \/ \E t \in Callers : StartStore(t)
    \/ \E t \in Callers : StartRelay(t)
    \/ \E t \in Callers : StopTake(t)
    \/ \E t \in Callers, r \in Results, k \in EndKinds : StopKill(t, r, k)
    \/ \E t \in Callers : StatusRead(t)
    \/ \E t \in Callers : QuitTake(t)
    \/ \E t \in Callers, r \in Results, k \in EndKinds : QuitKill(t, r, k)
    \/ \E t \in Callers : QuitExit(t)
    \/ \E p \in Pids, k \in EndKinds : SelfExit(p, k)
    \/ \E p \in Pids : RelayRecv(p)
    \/ \E p \in Pids : RelayEnd(p)

\* Invocations arrive at any time: the commands run concurrently.  The
\* sidecars are silent: the only events on their channels are the final ones.
Next ==
    \/ \E t \in Callers, o \in Ops : Invoke(t, o)
    \/ Step

Spec == Init /\ [][Next]_vars

\* A caller that awaits each result before it issues the next operation: an
\* operation is invoked only when no other invocation is in flight or
\* uncollected.  The sidecars (which write output here) and the relay tasks
\* still run concurrently with the caller.
InvokeSeq(t, o) ==
    /\ \A u \in Callers : pc[u] = "idle"
    /\ Invoke(t, o)

NextSeq ==
    \/ \E t \in Callers, o \in Ops : InvokeSeq(t, o)
    \/ \E p \in Pids, k \in OutputKinds : Emit(p, k)
    \/ Step

SpecSeq == Init /\ [][NextSeq]_vars

\* concurrent commands and sidecars that write output
NextOut ==
    \/ \E p \in Pids, k \in OutputKinds : Emit(p, k)
    \/ Next

SpecOut == Init /\ [][NextOut]_vars

\* concurrent commands together with the events of the window and of the tray
NextUI ==
    \/ MenuShow
    \/ TrayLeftClick
    \/ CloseRequested
    \/ Next

SpecUI == Init /\ [][NextUI]_vars

\* The relay tasks are spawned on the async runtime, which keeps polling a
\* task whose recv() can return: a relay step that stays possible is taken.
RelayFairness ==
    \A p \in Pids : WF_vars(RelayRecv(p)) /\ WF_vars(RelayEnd(p))

SpecSeqFair == SpecSeq /\ RelayFairness

\* the next step of invocation t, whatever its operation
CmdStep(t) ==
    \/ StartCheck(t)
    \/ \E r \in Results : StartCreate(t, r)
    \/ StartSpawnOk(t)
    \/ StartSpawnFail(t)
    \/ StartStore(t)
    \/ StartRelay(t)
    \/ StopTake(t)
    \/ \E r \in Results, k \in EndKinds : StopKill(t, r, k)
    \/ StatusRead(t)
    \/ QuitTake(t)
    \/ \E r \in Results, k \in EndKinds : QuitKill(t, r, k)
    \/ QuitExit(t)

\* Fair scheduling: the thread or task that runs an invocation is not
\* suspended forever while its next step (a lock() on a free mutex included)
\* can be taken.
CmdFairness == \A t \in Callers : WF_vars(CmdStep(t))

\* concurrent commands on sidecars that run until they are killed
NextLong ==
    \/ \E t \in Callers, o \in Ops : Invoke(t, o)
    \/ \E t \in Callers : Collect(t)
    \/ \E t \in Callers : CmdStep(t)
    \/ \E p \in Pids : RelayRecv(p)
    \/ \E p \in Pids : RelayEnd(p)

SpecFair == Init /\ [][NextLong]_vars /\ CmdFairness

TypeOK ==
    /\ window \in {"shown", "hidden", "closed"}
    /\ child \in Pids \cup {None}
    /\ lock \in Callers \cup {Free}
    /\ \A t \in Callers : local[t] \in Pids \cup {None} /\ rcv[t] \in Pids \cup {None}
    /\ \A t \in Callers : op[t] \in Ops \cup {"none"}
    /\ \A t \in Callers : ret[t] \in {"none", "ok", "err"}
    /\ \A p \in Pids : proc[p] \in {"unborn", "alive", "killed", "exited"}
    /\ \A p \in Pids : relay[p] \in {"none", "running", "ended"}
    /\ exited \in BOOLEAN

(* ------------------------------ claims --------------------------------- *)
\* invocation t leaves position `at` in this step
Leaves(t, at) == pc[t] = at /\ pc'[t] # at
\* invocation t has returned from operation o with result r and the caller
\* has not consumed the result yet
Returned(t, o, r) == op[t] = o /\ pc[t] = "done" /\ ret[t] = r
\* no handle was ever moved out of SidecarState by stop_sidecar or quit
NothingTaken ==
    /\ \A p \in Pids : kills[p] = 0
    /\ \A t \in Callers : pc[t] \notin {"p_kill", "q_kill"}

\* C1: as long as no stop_sidecar or quit has removed a handle, the
\* start_sidecar invocations issued on the empty state (concurrently or not)
\* have spawned at most one sidecar process between them.
C1_AtMostOneSpawn == NothingTaken => Cardinality(Spawned) <= 1

\* C2: in every reachable state at most one sidecar process is live, that is
\* spawned and neither killed nor self-terminated.
C2_AtMostOneLive == Cardinality(Live) <= 1

\* C3: whenever the quit handler is about to call app.exit(0), every sidecar
\* process spawned so far has been killed or has terminated on its own.
C3_NoOrphanOnQuit == \A t \in Callers : pc[t] = "q_exit" => Live = {}

\* C4: at the step in which stop_sidecar returns, with Ok or with the kill
\* error, SidecarState holds no handle, so sidecar_status reports running =
\* false; the handle is already gone while kill is being issued.
C4_NotRunningAfterStop ==
    [][\A t \in Callers :
          /\ (op[t] = "stop" /\ pc[t] # "done" /\ pc'[t] = "done") => ~Running'
          /\ (op[t] = "stop" /\ pc'[t] = "p_kill") => ~Running']_vars

\* stop_sidecar returned the kill error on a process that had terminated on
\* its own, and the state is empty
C4_Witness ==
    \E t \in Callers, p \in Pids :
        Returned(t, "stop", "err") /\ proc[p] = "exited" /\ kills[p] = 1 /\ ~Running

\* C5: for a caller that awaits each result, whenever start_sidecar has
\* returned Ok and nothing was invoked since, SidecarState holds a handle, so
\* sidecar_status reports running = true.
C5_RunningAfterStart == \A t \in Callers : Returned(t, "start", "ok") => Running

\* the first start_sidecar of a run spawned, stored, started the relay and returned Ok
C5_Witness ==
    \E t \in Callers : Returned(t, "start", "ok") /\ calls = 1 /\ child = 1 /\ relay[1] # "none"

\* C6: a start_sidecar that finds a handle present returns Ok at once: it
\* spawns nothing, leaves the stored handle in place and starts no relay.
C6_SecondStartNoOp ==
    [][\A t \in Callers :
          Leaves(t, "s_check") /\ child # None =>
              /\ pc'[t] = "done" /\ ret'[t] = "ok"
              /\ child' = child
              /\ proc' = proc
              /\ relay' = relay
              /\ local' = local /\ rcv' = rcv]_vars

\* two start_sidecar calls were issued, both returned Ok, one process was spawned
C6_Witness ==
    /\ calls = 2
    /\ \A t \in Callers : Returned(t, "start", "ok")
    /\ Spawned = {1}
    /\ child = 1
    /\ relay[2] = "none"

\* C7: for a caller that awaits each result, a start_sidecar that returned an
\* error left SidecarState empty; a handle is stored and a relay is started
\* only for a process that was actually spawned.
C7_FailedStartLeavesEmpty ==
    /\ \A t \in Callers : Returned(t, "start", "err") => ~Running
    /\ \A p \in Pids : (child = p \/ relay[p] # "none") => proc[p] # "unborn"

\* a start_sidecar on the empty state returned an error: no handle, no
\* process, no relay
C7_Witness ==
    /\ \E t \in Callers : Returned(t, "start", "err")
    /\ ~Running
    /\ Spawned = {}
    /\ \A p \in Pids : relay[p] = "none"

\* C8: a stored handle leaves SidecarState only in the take() of stop_sidecar
\* or of quit; the exit of the process and the steps of the relay task leave
\* the state and its lock as they are.
C8_RunningUntilStop ==
    [][/\ (Running /\ ~Running') =>
              \E t \in Callers : Leaves(t, "p_take") \/ Leaves(t, "q_take")
       /\ (\/ relay' # relay \/ info' # info \/ error' # error
           \/ \E p \in Pids : proc[p] = "alive" /\ proc'[p] = "exited") =>
              (child' = child /\ lock' = lock)]_vars

\* the process exited on its own, the relay logged Terminated and ended, and
\* a later sidecar_status still answered running = true
C8_Witness ==
    \E t \in Callers, p \in Pids :
        /\ Returned(t, "status", "ok") /\ status[t].running
        /\ child = p /\ proc[p] = "exited" /\ relay[p] = "ended"
        /\ error[p] # <<>> /\ error[p][Len(error[p])].kind = "Terminated"

\* C9: stop_sidecar on an empty SidecarState returns Ok in its first step,
\* issues no kill and leaves the state empty.
C9_StopOnEmptyIsNoOp ==
    [][\A t \in Callers :
          Leaves(t, "p_take") /\ child = None =>
              /\ pc'[t] = "done" /\ ret'[t] = "ok"
              /\ child' = None
              /\ kills' = kills /\ proc' = proc
              /\ lock' = lock]_vars

\* stop_sidecar returned Ok in a run in which nothing was ever spawned or killed
C9_Witness ==
    /\ \E t \in Callers : Returned(t, "stop", "ok")
    /\ Spawned = {}
    /\ \A p \in Pids : kills[p] = 0
    /\ ~Running

\* C10: sidecar_status returns Ok with port 22140 and running = (a handle is
\* present when the lock is taken), and changes neither SidecarState nor any
\* process, relay or lock.
C10_StatusReadOnly ==
    [][\A t \in Callers :
          Leaves(t, "t_read") =>
              /\ pc'[t] = "done" /\ ret'[t] = "ok"
              /\ status'[t] = [running |-> (child # None), port |-> 22140]
              /\ UNCHANGED <<child, lock, proc, kills, relay, rx, exited>>]_vars

\* sidecar_status answered running = false while a sidecar process was live
\* (its handle not in the state), and running = true was never derived from the OS
C10_Witness ==
    \E t \in Callers :
        /\ Returned(t, "status", "ok")
        /\ status[t] = [running |-> FALSE, port |-> 22140]
        /\ Live # {}

\* C11: a step that changes the window (a close request, the tray "show"
\* item, a left click on the tray icon) leaves SidecarState, its lock, every
\* invocation and every sidecar process as they are; a close request hides
\* the window and never closes it.
C11_WindowEventsLeaveSidecar ==
    [][window' # window =>
          /\ child' = child /\ lock' = lock
          /\ proc' = proc /\ kills' = kills
          /\ pc' = pc /\ local' = local
          /\ window' \in {"shown", "hidden"}]_vars

\* the window was hidden by a close request while the sidecar runs, and a
\* sidecar_status issued meanwhile answered running = true
C11_Witness ==
    \E t \in Callers, p \in Pids :
        /\ window = "hidden"
        /\ child = p /\ proc[p] = "alive"
        /\ Returned(t, "status", "ok") /\ status[t].running

\* C12: a relay task is started for a process only by the start_sidecar that
\* spawned it, in the statement after its store, and that call returns Ok; a
\* spawned process has no relay exactly as long as its spawning call still
\* holds the receiver; a start_sidecar that returns from its check or from a
\* failed creation or spawn starts no relay.
C12_RelayOncePerSpawn ==
    /\ [](\A p \in Pids :
            /\ relay[p] # "none" =>
                  /\ proc[p] # "unborn"
                  /\ \A t \in Callers : ~(op[t] = "start" /\ local[t] = p)
            /\ proc[p] # "unborn" =>
                  ((relay[p] = "none") <=> (\E t \in Callers : rcv[t] = p)))
    /\ [][/\ \A p \in Pids :
                (relay[p] # "running" /\ relay'[p] = "running") =>
                    /\ relay[p] = "none"
                    /\ \E t \in Callers :
                          Leaves(t, "s_relay") /\ rcv[t] = p /\ ret'[t] = "ok"
          /\ \A t \in Callers :
                (pc[t] \in {"s_check", "s_create", "s_spawn"} /\ pc'[t] = "done") =>
                    relay' = relay]_vars

\* two racing start_sidecar calls each spawned a process and each started the
\* relay of its own process
C12_Witness ==
    /\ \A t \in Callers : Returned(t, "start", "ok")
    /\ \A p \in {1, 2} : proc[p] # "unborn" /\ relay[p] # "none"

\* number of events of p the relay has received
Received(p) == sent[p] - Len(rx[p])
\* the numbers of the events in a sink grow strictly: the sink keeps the
\* order of production
Ordered(q) == \A i, j \in 1..Len(q) : i < j => q[i].n < q[j].n

\* C13: the channel hands the events over in the order of production and
\* only to a running relay; the relay forwards a Stdout event to the info
\* sink, a Stderr event to the error sink, skips an event of another kind and
\* goes on, ends with the first Terminated event (which it logs on the error
\* sink) or when the channel is closed and empty, and touches nothing once it
\* has ended; the sinks keep the order of production; and once the channel of
\* a running relay is closed, the relay ends.
C13_RelayDrainsInOrder ==
    /\ [](\A p \in Pids :
            /\ \A i \in 1..Len(rx[p]) : rx[p][i].n = Received(p) + i
            /\ Ordered(info[p]) /\ Ordered(error[p])
            /\ \A i \in 1..Len(info[p]) : info[p][i].kind = "Stdout"
            /\ \A i \in 1..Len(error[p]) : error[p][i].kind \in {"Stderr", "Terminated"}
            /\ \A i \in 1..Len(error[p]) :
                  error[p][i].kind = "Terminated" => i = Len(error[p]) /\ relay[p] = "ended")
    /\ [][\A p \in Pids :
            /\ (Len(rx'[p]) < Len(rx[p])) =>
                  /\ relay[p] = "running"
                  /\ rx'[p] = Tail(rx[p])
                  /\ LET e == Head(rx[p]) IN
                        /\ e.kind = "Stdout" =>
                              info'[p] = Append(info[p], e) /\ error'[p] = error[p]
                        /\ e.kind = "Stderr" =>
                              error'[p] = Append(error[p], e) /\ info'[p] = info[p]
                        /\ e.kind = "Other" =>
                              info'[p] = info[p] /\ error'[p] = error[p]
                        /\ e.kind = "Terminated" => info'[p] = info[p]
                        /\ relay'[p] = IF e.kind = "Terminated" THEN "ended" ELSE "running"
            /\ (Len(rx'[p]) >= Len(rx[p])) => info'[p] = info[p] /\ error'[p] = error[p]
            /\ (relay[p] = "running" /\ relay'[p] = "ended" /\ rx'[p] = rx[p]) =>
                  rx[p] = <<>> /\ closed[p]
            /\ relay[p] = "ended" => relay'[p] = "ended"]_vars
    /\ \A p \in Pids : (relay[p] = "running" /\ closed[p]) ~> (relay[p] = "ended")

\* a sidecar wrote a line to stdout and exited: its relay printed the line on
\* the info sink, logged Terminated on the error sink and ended with an empty channel
C13_Witness ==
    \E p \in Pids :
        /\ relay[p] = "ended" /\ rx[p] = <<>>
        /\ Len(info[p]) = 1 /\ info[p][1].kind = "Stdout"
        /\ Len(error[p]) = 1 /\ error[p][1].kind = "Terminated"

\* C14: stop_sidecar returns Ok without a kill when the state is empty;
\* otherwise it issues exactly one kill on the handle it took and returns its
\* result: an error only after a kill that changed nothing, Ok after a kill
\* that ended the process if it was alive.  The invocation ends there.
C14_StopErrIffKillFailed ==
    /\ [](\A t \in Callers :
            (op[t] = "stop" /\ ret[t] = "err") => \E p \in Pids : kills[p] > 0)
    /\ [][\A t \in Callers :
            /\ Leaves(t, "p_take") =>
                  /\ kills' = kills
                  /\ IF child = None
                     THEN pc'[t] = "done" /\ ret'[t] = "ok"
                     ELSE pc'[t] = "p_kill" /\ local'[t] = child /\ ret'[t] = "none"
            /\ Leaves(t, "p_kill") =>
                  /\ pc'[t] = "done" /\ ret'[t] \in {"ok", "err"}
                  /\ kills' = [kills EXCEPT ![local[t]] = @ + 1]
                  /\ ret'[t] = "err" => proc' = proc
                  /\ (ret'[t] = "ok" /\ proc[local[t]] = "alive") =>
                        proc'[local[t]] = "killed"]_vars

\* stop_sidecar returned the kill error for a process that is still alive:
\* one kill was issued and the state is empty
C14_Witness ==
    \E t \in Callers, p \in Pids :
        Returned(t, "stop", "err") /\ proc[p] = "alive" /\ kills[p] = 1 /\ child = None

\* C15: a start_sidecar that finds the state empty goes on to create and
\* spawn the sidecar, whatever was started, stopped or failed before, and the
\* store puts the handle of the process it spawned into the state; for a
\* caller that awaits each result, a start_sidecar that returned an error
\* or a stop_sidecar that returned leaves the state empty for the next start.
C15_Restartable ==
    /\ [](\A t \in Callers :
            (Returned(t, "stop", "ok") \/ Returned(t, "stop", "err")
                \/ Returned(t, "start", "err")) => child = None)
    /\ [][\A t \in Callers :
            /\ (Leaves(t, "s_check") /\ child = None) => pc'[t] = "s_create"
            /\ Leaves(t, "s_store") =>
                  /\ local[t] # None /\ proc[local[t]] # "unborn"
                  /\ child' = local[t]]_vars

\* start, stop, start by a caller that awaits each result: the first process
\* was killed, a second one was spawned and its handle is in the state
C15_Witness ==
    \E t \in Callers :
        /\ Returned(t, "start", "ok")
        /\ proc[1] = "killed" /\ kills[1] = 1
        /\ child = 2 /\ proc[2] = "alive"

\* C16: the quit handler removes the handle if there is one, issues one kill
\* on it, and goes on to app.exit(0) whatever kill returned; on the empty
\* state it goes to app.exit(0) directly; under fair scheduling a quit that
\* was selected reaches app.exit(0).
C16_QuitAlwaysExits ==
    /\ [][\A t \in Callers :
            /\ Leaves(t, "q_take") =>
                  /\ child' = None /\ kills' = kills /\ ~exited'
                  /\ IF child = None
                     THEN pc'[t] = "q_exit"
                     ELSE pc'[t] = "q_kill" /\ local'[t] = child
            /\ Leaves(t, "q_kill") =>
                  /\ pc'[t] = "q_exit"
                  /\ kills' = [kills EXCEPT ![local[t]] = @ + 1]
            /\ Leaves(t, "q_exit") => exited']_vars
    /\ \A t \in Callers : (pc[t] \in QuitPcs) ~> exited

\* the application exited although the kill issued by the quit handler left
\* the process alive
C16_Witness ==
    \E t \in Callers, p \in Pids :
        /\ Returned(t, "quit", "ok") /\ exited
        /\ kills[p] = 1 /\ proc[p] = "alive" /\ child = None
        /\ \A u \in Callers : op[u] # "stop"

\* C17: a kill is issued only by a stop_sidecar or quit that holds the lock,
\* on the handle it moved out of SidecarState when it acquired the lock; the
\* handle it holds is no longer in the state and no other caller holds it; no
\* process is sent more than one kill.
C17_KillSingleShot ==
    /\ [](/\ \A p \in Pids : kills[p] <= 1
          /\ \A t \in Callers : pc[t] \in {"p_kill", "q_kill"} =>
                /\ lock = t /\ local[t] # None /\ local[t] # child
                /\ kills[local[t]] = 0
                /\ \A u \in Callers \ {t} : pc[u] \notin {"p_kill", "q_kill"})
    /\ [][/\ kills' # kills =>
                \E t \in Callers :
                    /\ pc[t] \in {"p_kill", "q_kill"} /\ pc'[t] \notin {"p_kill", "q_kill"}
                    /\ kills' = [kills EXCEPT ![local[t]] = @ + 1]
          /\ \A t \in Callers :
                (pc[t] \notin {"p_kill", "q_kill"} /\ pc'[t] \in {"p_kill", "q_kill"}) =>
                    /\ pc[t] \in {"p_take", "q_take"} /\ lock = Free /\ lock' = t
                    /\ child # None /\ local'[t] = child /\ child' = None]_vars

\* a stop_sidecar and the quit handler ran concurrently: stop_sidecar took the
\* handle and killed the process, and the quit handler, which waited for the
\* lock, found the state empty
C17_Witness ==
    \E t, u \in Callers, p \in Pids :
        /\ Returned(t, "stop", "ok") /\ op[u] = "quit" /\ pc[u] = "q_exit"
        /\ kills[p] = 1 /\ proc[p] = "killed"
        /\ \A q \in Pids \ {p} : kills[q] = 0

\* C18: whenever start_sidecar stores the handle of the process it spawned,
\* SidecarState is empty; and once no command is in flight, every process
\* that is alive and was never sent a kill is the one whose handle is in
\* SidecarState.
C18_StoreOnlyOnEmpty ==
    /\ [][\A t \in Callers : Leaves(t, "s_store") => child = None]_vars
    /\ []((\A t \in Callers : pc[t] \in {"idle", "done"}) =>
            \A p \in Pids : (proc[p] = "alive" /\ kills[p] = 0) => child = p)

\* positions whose next step begins with lock() on the SidecarState mutex
LockPcs == {"s_check", "s_store", "p_take", "t_read", "q_take"}

\* C19: the mutex is held only by a stop_sidecar or quit that is about to
\* kill the handle it took, never by an invocation that is about to lock it;
\* the holder can always take its step, and that step unlocks the mutex;
\* whenever an invocation is in flight some invocation can take a step; and
\* under fair scheduling a held mutex is released and every invocation
\* returns.
C19_NoDeadlock ==
    /\ [](/\ \A t \in Callers :
                lock = t => /\ pc[t] \in {"p_kill", "q_kill"}
                            /\ pc[t] \notin LockPcs
                            /\ ENABLED CmdStep(t)
          /\ (\E t \in Callers : pc[t] \notin {"idle", "done"}) =>
                \E t \in Callers : ENABLED CmdStep(t))
    /\ [][/\ (lock # Free /\ lock' # lock) =>
                lock' = Free /\ pc'[lock] \notin {"p_kill", "q_kill"}
          /\ \A t \in Callers :
                (pc[t] \in {"p_kill", "q_kill"} /\ pc'[t] # pc[t]) => lock' = Free
          /\ \A t \in Callers :
                (pc[t] \in LockPcs /\ pc'[t] # pc[t]) => lock = Free]_vars
    /\ (lock # Free) ~> (lock = Free)
    /\ \A t \in Callers : (pc[t] \notin {"idle", "done"}) ~> (pc[t] = "done")

\* a stop_sidecar holds the mutex across its kill while a start_sidecar that
\* has spawned waits for the mutex to store its handle
C19_Witness ==
    \E t, u \in Callers :
        /\ lock = t /\ pc[t] = "p_kill"
        /\ pc[u] = "s_store" /\ ~ENABLED CmdStep(u)
====
